---- MODULE Spec2Model ----
(***************************************************************************)
(* Capability router and task decomposition engine of the simple           *)
(* multi-agent system: AgentOrchestrator (core/orchestrator.py) routing a  *)
(* request to MathAgent / TextAgent or to the coordinator TaskAgent        *)
(* (agents/task_agent.py), which delegates, decomposes and aggregates.     *)
(*                                                                         *)
(* Requests are TLA+ strings; the keyword tests, regular expressions and   *)
(* str methods of the Python source are computed character by character.   *)
(***************************************************************************)
EXTENDS Integers, Sequences, FiniteSets, TLC

\* ------------------------------------------------------------------ bounds
\* A request names at most MaxTasks tasks, joined by " and ".
MaxTasks == 2
\* At most MaxCalls requests are made per behaviour.
MaxCalls == 1
\* Unit level: at most MaxUnitCalls calls of one method, and a conversation
\* history of at most MaxHistory entries.
MaxUnitCalls == 2
MaxHistory == 1
MaxRegistered == 3
MaxEntries == 3
MaxCount == 4
MaxAttempts == 5

\* ----------------------------------------------------------- str primitives
\* the element of a one-element set; { F(x) : x \in {e} } computes e once,
\* whatever the number of places F uses x in
Only(S) == CHOOSE x \in S : TRUE

\* the least element of a non-empty set of integers
Least(S) == CHOOSE x \in S : \A y \in S : x <= y

Char(s, i) == SubSeq(s, i, i)

\* Python: sub in s
Contains(s, sub) ==
    \E t \in {s} : \E i \in 1..(Len(t) - Len(sub) + 1) : SubSeq(t, i, i + Len(sub) - 1) = sub

\* Python: any(k in s for k in keys)
ContainsAny(s, keys) == \E t \in {s} : \E k \in keys : Contains(t, k)

\* Python: sum(1 for k in keys if k in s)
CountIn(s, keys) == Only({ Cardinality({k \in keys : Contains(t, k)}) : t \in {s} })

UpperCase == <<"A","B","C","D","E","F","G","H","I","J","K","L","M",
               "N","O","P","Q","R","S","T","U","V","W","X","Y","Z">>
LowerCase == <<"a","b","c","d","e","f","g","h","i","j","k","l","m",
               "n","o","p","q","r","s","t","u","v","w","x","y","z">>

UpperSet == {UpperCase[i] : i \in 1..26}
LowerOf  == [c \in UpperSet |-> LowerCase[CHOOSE i \in 1..26 : UpperCase[i] = c]]

LowerChar(c) == IF c \in UpperSet THEN LowerOf[c] ELSE c

\* Python: s.lower()
RECURSIVE LowerFrom(_, _)
LowerFrom(s, i) == IF i > Len(s) THEN "" ELSE LowerChar(Char(s, i)) \o LowerFrom(s, i + 1)
Lower(s) == IF \E i \in 1..Len(s) : Char(s, i) \in UpperSet THEN LowerFrom(s, 1) ELSE s

\* regular-expression character classes \s, \d, \w
IsSpace(c) == c \in {" ", "\t", "\n", "\r"}
IsDigit(c) == c \in {"0","1","2","3","4","5","6","7","8","9"}
IsWord(c)  == \/ IsDigit(c) \/ c = "_"
              \/ \E i \in 1..26 : c = UpperCase[i] \/ c = LowerCase[i]
IsOperator(c) == c \in {"+", "-", "*", "/"}

\* first position p >= i of s whose character is not in the class (Len(s)+1
\* when the run reaches the end): a greedy  \s*  \d*  \w*
RECURSIVE SkipSpace(_, _)
SkipSpace(s, i) == IF i <= Len(s) /\ IsSpace(Char(s, i)) THEN SkipSpace(s, i + 1) ELSE i
RECURSIVE SkipDigit(_, _)
SkipDigit(s, i) == IF i <= Len(s) /\ IsDigit(Char(s, i)) THEN SkipDigit(s, i + 1) ELSE i
RECURSIVE SkipWord(_, _)
SkipWord(s, i) == IF i <= Len(s) /\ IsWord(Char(s, i)) THEN SkipWord(s, i + 1) ELSE i

\* Python: s.strip()
RECURSIVE RStrip(_)
RStrip(s) == IF Len(s) > 0 /\ IsSpace(Char(s, Len(s)))
             THEN RStrip(SubSeq(s, 1, Len(s) - 1)) ELSE s
Strip(s) == Only({ RStrip(t) : t \in {SubSeq(s, SkipSpace(s, 1), Len(s))} })

\* ------------------------------------------------------------- the handlers
MathAgent == "MathAgent"
TextAgent == "TextAgent"
TaskAgent == "TaskAgent"

math_keywords ==
    {"calculate", "compute", "solve", "equation", "math", "mathematics",
     "add", "subtract", "multiply", "divide", "sum", "difference",
     "product", "quotient", "square", "root", "power", "algebra",
     "number", "numbers", "+", "-", "*", "/", "=", "x", "y"}

text_exclusions ==
    {"sentiment", "analyze", "count words", "text analysis", "extract numbers"}

\* re.search(r'\w*[xyz]\w*\s*[+\-*/]?\s*\d*\s*=', message): some x, y or z,
\* the rest of its word, blanks, at most one operator, blanks, digits,
\* blanks and then "=" (each run greedy; a shorter run never helps)
EquationAt(s, i) ==
    \E w \in {SkipWord(s, i + 1)} :
    \E a \in {SkipSpace(s, w)} :
    \E b \in {IF a <= Len(s) /\ IsOperator(Char(s, a)) THEN a + 1 ELSE a} :
    \E d \in {SkipSpace(s, b)} :
    \E e \in {SkipDigit(s, d)} :
    \E c \in {SkipSpace(s, e)} :
        c <= Len(s) /\ Char(s, c) = "="

has_equation(message) ==
    \E i \in 1..Len(message) : Char(message, i) \in {"x", "y", "z"} /\ EquationAt(message, i)

\* MathAgent.can_handle
MathCanHandle(message) ==
    LET message_lower == Lower(message)
        has_math_keywords == ContainsAny(message_lower, math_keywords)
        has_numbers == \E i \in 1..Len(message) : IsDigit(Char(message, i))
        has_operators == \E i \in 1..Len(message) : Char(message, i) \in {"+", "-", "*", "/", "="}
        has_text_exclusions == ContainsAny(message_lower, text_exclusions)
        strong_math == \/ has_equation(message)
                       \/ Contains(message_lower, "solve")
                       \/ ContainsAny(message, {"=", "calculate", "sum of"})
    IN  IF strong_math THEN TRUE
        ELSE IF has_text_exclusions THEN FALSE
        ELSE has_math_keywords \/ (has_numbers /\ has_operators)

text_keywords ==
    {"analyze", "sentiment", "text", "words", "characters", "count",
     "summarize", "summary", "extract", "process", "content",
     "emotion", "feeling", "positive", "negative", "neutral",
     "reading", "writing", "language", "string", "paragraph"}

text_phrases ==
    {"what is the sentiment", "how many words", "analyze this text",
     "sentiment of", "word count", "character count", "summarize"}

IsQuote(c) == c \in {"\"", "'"}

\* re.search(r'["\'].*["\']', message): two quotes with no newline between
has_quoted_text(message) ==
    \E i \in 1..Len(message) : \E j \in (i + 1)..Len(message) :
        /\ IsQuote(Char(message, i)) /\ IsQuote(Char(message, j))
        /\ \A k \in (i + 1)..(j - 1) : Char(message, k) # "\n"

\* TextAgent.can_handle
TextCanHandle(message) ==
    LET message_lower == Lower(message)
    IN  \/ ContainsAny(message_lower, text_keywords)
        \/ ContainsAny(message_lower, text_phrases)
        \/ has_quoted_text(message)

task_keywords ==
    {"plan", "organize", "coordinate", "manage", "schedule", "task",
     "workflow", "process", "steps", "breakdown", "delegate",
     "help me", "can you", "please", "need to", "want to"}

multi_step_words == {"and", "then", "also", "plus", "both"}

\* TaskAgent.can_handle
TaskCanHandle(message) ==
    LET message_lower == Lower(message)
    IN  \/ ContainsAny(message_lower, task_keywords)
        \/ ContainsAny(message_lower, multi_step_words)
        \/ ContainsAny(message_lower, {"help me", "can you", "i need", "please", "how do i"})

\* ------------------------------------------------- TaskAgent._extract_steps
\* re.findall(r'\d+[.)]\s*([^.!?]*[.!?]?)', message)
IsMarker(c) == c \in {".", ")"}
IsStop(c)   == c \in {".", "!", "?"}

RECURSIVE SkipNonStop(_, _)
SkipNonStop(s, i) == IF i <= Len(s) /\ ~IsStop(Char(s, i)) THEN SkipNonStop(s, i + 1) ELSE i

\* a match of  \d+[.)]  starts at p
NumberedAt(s, p) ==
    /\ IsDigit(Char(s, p))
    /\ \E q \in {SkipDigit(s, p)} : q <= Len(s) /\ IsMarker(Char(s, q))

\* the captured groups of the non-overlapping matches found from position i on
RECURSIVE NumberedFrom(_, _)
NumberedFrom(s, i) ==
    Only({ IF starts = {} THEN <<>>
           ELSE Only({ Only({ Only({ Only({ <<SubSeq(s, g, last)>> \o NumberedFrom(s, next)
                                            : next \in {last + 1} })
                                     : last \in {IF e <= Len(s) THEN e ELSE Len(s)} })
                              : e \in {SkipNonStop(s, g)} })
                       : g \in {SkipSpace(s, SkipDigit(s, Least(starts)) + 1)} })
           : starts \in {{p \in i..Len(s) : NumberedAt(s, p)}} })

\* re.split(r'\s+(?:and|then|also|plus|next|after that)\s+', message, re.IGNORECASE)
connectors == {"and", "then", "also", "plus", "next", "after that"}

\* the connector k stands at position q and is followed by a blank
ConnectorAt(s, q, k) ==
    /\ q + Len(k) <= Len(s)
    /\ Lower(SubSeq(s, q, q + Len(k) - 1)) = k
    /\ IsSpace(Char(s, q + Len(k)))

\* a match of the separator starts at p
SeparatorAt(s, p) ==
    /\ IsSpace(Char(s, p))
    /\ \E q \in {SkipSpace(s, p)} : \E k \in connectors : ConnectorAt(s, q, k)

\* first position after the separator that starts at p
SeparatorEnd(s, p) ==
    Only({ Only({ SkipSpace(s, after)
                  : after \in {q + Len(CHOOSE c \in connectors : ConnectorAt(s, q, c))} })
           : q \in {SkipSpace(s, p)} })

RECURSIVE SplitFrom(_, _)
SplitFrom(s, i) ==
    Only({ IF starts = {} THEN <<SubSeq(s, i, Len(s))>>
           ELSE Only({ Only({ <<SubSeq(s, i, p - 1)>> \o SplitFrom(s, next)
                              : next \in {SeparatorEnd(s, p)} })
                       : p \in {Least(starts)} })
           : starts \in {{p \in i..Len(s) : SeparatorAt(s, p)}} })

\* the fallback to the whole message is left out
_extract_stepsNoFallback(message) ==
    Only({ IF numbered_steps # <<>> THEN [i \in 1..Len(numbered_steps) |-> Strip(numbered_steps[i])]
           ELSE Only({ IF Len(parts) > 1 THEN [i \in 1..Len(parts) |-> Strip(parts[i])] ELSE <<>>
                       : parts \in {SplitFrom(message, 1)} })
           : numbered_steps \in {NumberedFrom(message, 1)} })

StripAll(parts) == [i \in 1..Len(parts) |-> Strip(parts[i])]

\* TaskAgent._extract_steps
_extract_steps(message) ==
    Only({ IF numbered_steps # <<>> THEN StripAll(numbered_steps)
           ELSE Only({ IF Len(parts) > 1 THEN StripAll(parts) ELSE <<Strip(message)>>
                       : parts \in {SplitFrom(message, 1)} })
           : numbered_steps \in {NumberedFrom(message, 1)} })

\* -------------------------------------------------- TaskAgent._analyze_task
analysis_math_indicators ==
    {"calculate", "solve", "math", "equation", "number", "+", "-", "*", "/", "="}
analysis_text_indicators ==
    {"analyze", "sentiment", "text", "words", "count", "summarize"}
coordination_indicators ==
    {"and", "then", "also", "plus", "both", "first", "second", "next"}

_analyze_task(message) ==
    LET message_lower == Lower(message)
        requires_math == ContainsAny(message_lower, analysis_math_indicators)
        requires_text_analysis == ContainsAny(message_lower, analysis_text_indicators)
        requires_coordination == ContainsAny(message_lower, coordination_indicators)
    IN  [ requires_math |-> requires_math,
          requires_text_analysis |-> requires_text_analysis,
          requires_coordination |-> requires_coordination,
          complexity |->
              IF requires_coordination \/ (requires_math /\ requires_text_analysis)
              THEN "complex"
              ELSE IF requires_math \/ requires_text_analysis THEN "medium"
              ELSE "simple",
          steps |-> _extract_steps(message) ]

\* ------------------------------------------------------------------- state
VARIABLES
    is_running,            \* AgentOrchestrator.is_running
    agents,                \* AgentOrchestrator.agents: the names, in insertion order
    available_agents,      \* TaskAgent.available_agents, in registration order
    impl,                  \* the can_handle implementation of each specialized handler
    conversation_history,  \* AgentOrchestrator.conversation_history
    calls,                 \* calls of AgentOrchestrator.process_message so far
    pc,                    \* position of the call in flight
    message,               \* its request
    selected_agent,        \* its selected_agent
    task_analysis,         \* TaskAgent: task_analysis of the request
    step_index,            \* _handle_complex_task: 1-based index of the next step
    results,               \* _handle_complex_task: results
    fail_step,             \* the step whose handler outcomes the twin pass replaces by success
    twin_results,          \* results of the twin pass
    invoked,               \* handler invocations of the call, in order
    caller,                \* who made the call: "orchestrator" when it came through
                           \* AgentOrchestrator.process_message, "client" when the
                           \* coordinator's process_message was called directly
    agent_response,        \* what selected_agent.process_message gave the orchestrator
    response,              \* what AgentOrchestrator.process_message returned
    other,                 \* a second call of AgentOrchestrator.process_message that
                           \* overlaps the first
    recent,                \* what the last get_conversation_history call returned
    wait                   \* the call of wait_for_mcp_server

vars == <<is_running, agents, available_agents, impl, conversation_history, calls,
          pc, message, selected_agent, task_analysis, step_index, results,
          fail_step, twin_results, invoked, caller, agent_response, response,
          other, recent, wait>>

\* the state outside the first call and its registry
Aside == <<other, recent, wait>>

\* ---------------------------------------------------------------- requests
\* the tasks a request is made of: one that MathAgent alone accepts (score
\* 0.8), one that TextAgent alone accepts (MathAgent excludes it), one that
\* neither accepts, and one that both accept, TextAgent with the higher score
\* (0.8 against 0.6).  "calculate 1+1 and summary" gives both 0.8.
Tasks == {"calculate 1+1", "analyze sentiment", "hello", "summary"}

RECURSIVE RequestsOf(_)
RequestsOf(n) ==
    IF n = 0 THEN {""}
    ELSE LET shorter == RequestsOf(n - 1)
         IN  shorter \cup {IF r = "" THEN t ELSE r \o " and " \o t :
                              r \in shorter, t \in Tasks}

Requests == RequestsOf(MaxTasks)

\* ------------------------------------------------------ handler behaviour
\* BaseAgent.can_handle is abstract.  A registered handler runs the shipped
\* predicate of its class, or is a double of it that declines composite
\* requests: the shipped predicate restricted to requests without a
\* multi-step word.
HandlerKinds == {"shipped", "atomic"}

ShippedCanHandle(agent, text) ==
    IF agent = MathAgent THEN MathCanHandle(text)
    ELSE IF agent = TextAgent THEN TextCanHandle(text)
    ELSE TaskCanHandle(text)

CanHandle(agent, text) ==
    IF agent # TaskAgent /\ impl[agent] # "shipped"
    THEN ShippedCanHandle(agent, text) /\ ~ContainsAny(Lower(text), multi_step_words)
    ELSE ShippedCanHandle(agent, text)

\* A third double declines composite requests too, and its predicate raises
\* on every other request; only OrchInitializeFaulty registers one.
FaultyKinds == HandlerKinds \cup {"raising"}

PredicateRaises(agent, text) ==
    /\ agent # TaskAgent
    /\ impl[agent] = "raising"
    /\ ~ContainsAny(Lower(text), multi_step_words)

\* BaseAgent.process_message is abstract: an invocation returns a response
\* with success true ("ok"), a response with success false ("err"), or
\* raises ("raise").
Outcomes == {"ok", "err", "raise"}

ExceptionText == "handler raised"
PredicateText == "predicate raised"
PredicateError == "PredicateError"
ErrorText     == "handler error"
None          == "None"

\* the response dictionary a handler returns
HandlerResponse(agent, outcome) ==
    [ kind |-> "outcome", agent |-> agent, success |-> (outcome = "ok"),
      error |-> IF outcome = "ok" THEN None ELSE ErrorText,
      delegated_to |-> None, total_steps |-> 0, completed_steps |-> 0,
      step_results |-> <<>>, selected_agent |-> None, conversation_turn |-> 0 ]

\* an exception that reached the caller of process_message
Raised(text) ==
    [ kind |-> "raised", agent |-> None, success |-> FALSE, error |-> text,
      delegated_to |-> None, total_steps |-> 0, completed_steps |-> 0,
      step_results |-> <<>>, selected_agent |-> None, conversation_turn |-> 0 ]

NoResponse ==
    [ kind |-> "none", agent |-> None, success |-> FALSE, error |-> None,
      delegated_to |-> None, total_steps |-> 0, completed_steps |-> 0,
      step_results |-> <<>>, selected_agent |-> None, conversation_turn |-> 0 ]

\* no second call is in flight
NoOther == [pc |-> "idle", calls |-> 0, entry |-> 0, turn |-> 0]

\* get_conversation_history has not been called
NoRecent == [called |-> FALSE, count |-> 0, history |-> <<>>, returned |-> <<>>]

\* wait_for_mcp_server has not been called
NoWait == [pc |-> "idle", max_attempts |-> 0, attempt |-> 0, log |-> <<>>, result |-> "None"]

NoAnalysis ==
    [ requires_math |-> FALSE, requires_text_analysis |-> FALSE,
      requires_coordination |-> FALSE, complexity |-> "simple", steps |-> <<>> ]

\* ------------------------------------------ AgentOrchestrator._select_agent
select_text_indicators == {"sentiment", "analyze", "text", "words", "count", "extract"}
select_math_indicators == {"calculate", "solve", "equation", "math", "+", "-", "*", "/", "="}

\* Scores are IEEE doubles.  A score is represented by 1000 * (its tenths)
\* plus the units in the last place by which the double exceeds the decimal:
\* 0.6 + 6*0.1 and 0.8 + 4*0.1 are 1.2000000000000002, 0.8 + 6*0.1 is
\* 1.4000000000000001, every other sum is the double of its decimal.
MathScore(k) == 1000 * (6 + k) + (IF k = 6 THEN 1 ELSE 0)
TextScore(k) == 1000 * (8 + k) + (IF k \in {4, 6} THEN 1 ELSE 0)
OtherScore   == 10000

\* lines 147-175: the score of one agent, 0.0 when its predicate raises
Score(agent_name, msg) ==
    IF PredicateRaises(agent_name, msg) THEN 0
    ELSE IF ~CanHandle(agent_name, msg) THEN 0
    ELSE LET message_lower == Lower(msg)
         IN  IF agent_name = TextAgent
             THEN TextScore(CountIn(message_lower, select_text_indicators))
             ELSE IF agent_name = MathAgent
             THEN MathScore(CountIn(message_lower, select_math_indicators))
             ELSE OtherScore

\* lines 145-146: the agents that get a score, in the order of self.agents
ScoredAgentsWithCoordinator == agents
ScoredAgents == SelectSeq(agents, LAMBDA a : a # TaskAgent)

\* line 179: max(agent_scores, key=agent_scores.get) scans the keys in
\* insertion order and keeps the first one whose score no later key exceeds.
\* best is <<index, score>> of the best key so far, <<0, -1>> before the first.
RECURSIVE MaxScanLast(_, _, _, _)
MaxScanLast(scored, msg, i, best) ==
    IF i > Len(scored) THEN best
    ELSE LET score == Score(scored[i], msg)
         IN  IF score >= best[2] THEN MaxScanLast(scored, msg, i + 1, <<i, score>>)
             ELSE MaxScanLast(scored, msg, i + 1, best)
RECURSIVE MaxScan(_, _, _, _)
MaxScan(scored, msg, i, best) ==
    IF i > Len(scored) THEN best
    ELSE LET score == Score(scored[i], msg)
         IN  IF score > best[2] THEN MaxScan(scored, msg, i + 1, <<i, score>>)
             ELSE MaxScan(scored, msg, i + 1, best)

\* the scan order depends on the number of entries of the history
_select_agentByTurn(msg) ==
    LET scored == ScoredAgents
        best == IF Len(conversation_history) % 2 = 0
                THEN MaxScan(scored, msg, 1, <<0, -1>>)
                ELSE MaxScanLast(scored, msg, 1, <<0, -1>>)
    IN  IF scored # <<>> /\ best[2] > 0 THEN scored[best[1]] ELSE None

\* AgentOrchestrator._select_agent: the selected agent, or None
_select_agent(msg) ==
    LET scored == ScoredAgents
        best == MaxScan(scored, msg, 1, <<0, -1>>)
    IN  IF scored # <<>> /\ best[2] > 0 THEN scored[best[1]] ELSE None

\* --------------------------------------------------------------- TaskAgent
\* the coordinator is registered like any other agent
register_agentAny(registered, agent) == Append(registered, agent)

\* TaskAgent.register_agent
register_agent(registered, agent) ==
    IF agent # TaskAgent THEN Append(registered, agent) ELSE registered

\* the coordinator never delegates a whole message
best_agentNone(msg) == None

\* the registered agents whose predicate the loop of lines 164 and 208
\* gets an answer from: those before the first one whose predicate raises
Evaluated(text) ==
    LET raising == {k \in 1..Len(available_agents) : PredicateRaises(available_agents[k], text)}
    IN  IF raising = {} THEN available_agents
        ELSE SubSeq(available_agents, 1, Least(raising) - 1)

\* _delegate_if_possible, lines 161-167: the first registered agent whose
\* predicate accepts the message, or None; PredicateError when a predicate
\* raises before one accepts
best_agent(msg) ==
    LET evaluated == Evaluated(msg)
        accepting == {k \in 1..Len(evaluated) : CanHandle(evaluated[k], msg)}
    IN  IF accepting # {}
        THEN evaluated[CHOOSE k \in accepting : \A l \in accepting : k <= l]
        ELSE IF evaluated # available_agents THEN PredicateError
        ELSE None

\* step_number counts from 0
PlannedStepZeroBased(i, step) ==
    [ step_number |-> i - 1, step_description |-> step, status |-> "planned",
      result |-> None, handled_by |-> None, error |-> None, note |-> None,
      delegated |-> FALSE ]

\* lines 200-204
PlannedStep(i, step) ==
    [ step_number |-> i, step_description |-> step, status |-> "planned",
      result |-> None, handled_by |-> None, error |-> None, note |-> None,
      delegated |-> FALSE ]

\* line 209: the registered agents whose predicate accepts the step, in
\* registration order
Candidates(step) == SelectSeq(Evaluated(step), LAMBDA a : CanHandle(a, step))

\* lines 208-219: the loop over the registered agents, from the k-th of those
\* that accept the step on; row[agent] is what agent.process_message(step)
\* does when it is called
RECURSIVE TryAgents(_, _, _, _)
TryAgents(step_result, candidates, row, k) ==
    IF k > Len(candidates) THEN step_result
    ELSE LET agent == candidates[k]
         IN  IF row[agent] = "raise"
             THEN TryAgents([step_result EXCEPT !.status = "failed", !.error = ExceptionText],
                            candidates, row, k + 1)
             ELSE [step_result EXCEPT !.status = "completed", !.result = row[agent],
                                      !.handled_by = agent, !.delegated = TRUE]

\* the handler invocations that loop makes, in order
RECURSIVE TryLog(_, _, _, _, _)
TryLog(i, step, candidates, row, k) ==
    IF k > Len(candidates) THEN <<>>
    ELSE LET agent == candidates[k]
             entry == [agent |-> agent, text |-> step, step |-> i, outcome |-> row[agent]]
         IN  IF row[agent] = "raise"
             THEN <<entry>> \o TryLog(i, step, candidates, row, k + 1)
             ELSE <<entry>>

\* lines 199-225: one iteration of the loop over the steps; lines 221-223
\* give a step that was not delegated the status needs_attention
RunStepKeepStatus(i, step, candidates, row) ==
    LET tried == TryAgents(PlannedStep(i, step), candidates, row, 1)
    IN  [ step_number |-> tried.step_number, step_description |-> tried.step_description,
          status |-> tried.status, result |-> tried.result, handled_by |-> tried.handled_by,
          error |-> tried.error,
          note |-> IF tried.delegated THEN None
                   ELSE "No specialized agent available for this step" ]
RunStep(i, step, candidates, row) ==
    LET tried == TryAgents(PlannedStep(i, step), candidates, row, 1)
    IN  [ step_number |-> tried.step_number, step_description |-> tried.step_description,
          status |-> IF tried.delegated THEN tried.status ELSE "needs_attention",
          result |-> tried.result, handled_by |-> tried.handled_by,
          error |-> tried.error,
          note |-> IF tried.delegated THEN None
                   ELSE "No specialized agent available for this step" ]

\* lines 208-209: the loop reaches an agent whose predicate raises, no agent
\* before it having handled the step
PredicateReached(step, candidates, row) ==
    /\ Evaluated(step) # available_agents
    /\ ~TryAgents(PlannedStep(0, step), candidates, row, 1).delegated

\* --------------------------------------------------------------- responses
\* orchestrator.py lines 70-75
NotInitialized ==
    [NoResponse EXCEPT !.kind = "not_initialized", !.agent = "System",
                       !.error = "System not initialized"]

\* orchestrator.py lines 113-122
SystemError(text) ==
    [NoResponse EXCEPT !.kind = "error", !.agent = "System", !.error = text]

\* task_agent.py lines 84-89
TaskError(text) ==
    [NoResponse EXCEPT !.kind = "error", !.agent = TaskAgent, !.error = text]

\* task_agent.py lines 227-233 and _format_complex_response
Report(steps, step_results) ==
    [NoResponse EXCEPT
        !.kind = "report", !.agent = TaskAgent, !.success = TRUE,
        !.total_steps = Len(steps),
        !.completed_steps =
            Cardinality({j \in 1..Len(step_results) : step_results[j].status = "completed"}),
        !.step_results = step_results]

\* task_agent.py lines 243-250 and _format_simple_response
SimpleResponse ==
    [NoResponse EXCEPT !.kind = "simple", !.agent = TaskAgent, !.success = TRUE]

\* orchestrator.py lines 191-196
HistoryEntry(role) == [role |-> role]

SpecializedAgents == {MathAgent, TextAgent}

\* ------------------------------------------------------------------- Init
Init ==
    /\ is_running = FALSE
    /\ agents = <<>>
    /\ available_agents = <<>>
    /\ impl = [a \in SpecializedAgents |-> "shipped"]
    /\ conversation_history = <<>>
    /\ calls = 0
    /\ pc = "idle"
    /\ message = ""
    /\ selected_agent = None
    /\ task_analysis = NoAnalysis
    /\ step_index = 0
    /\ results = <<>>
    /\ fail_step = 0
    /\ twin_results = <<>>
    /\ invoked = <<>>
    /\ caller = None
    /\ agent_response = NoResponse
    /\ response = NoResponse
    /\ other = NoOther
    /\ recent = NoRecent
    /\ wait = NoWait

\* ---------------------------------------------------------------- actions
\* the variables of the call in flight, other than pc and response
CallLocals == <<message, selected_agent, task_analysis, step_index, results,
                fail_step, twin_results, invoked, caller, agent_response>>
Registry == <<is_running, agents, available_agents, impl>>

\* AgentOrchestrator.initialize: creates and registers the three agents,
\* registers the specialized ones with the coordinator, then is_running
OrchInitialize ==
    /\ pc = "idle"
    /\ agents = <<>>
    /\ \E kinds \in [SpecializedAgents -> HandlerKinds] : impl' = kinds
    /\ agents' = <<MathAgent, TextAgent, TaskAgent>>
    /\ available_agents' =
           register_agent(register_agent(register_agent(<<>>, MathAgent), TextAgent), TaskAgent)
    /\ is_running' = TRUE
    /\ UNCHANGED <<conversation_history, calls, pc, response, CallLocals>>
    /\ UNCHANGED Aside

\* AgentOrchestrator.initialize with handlers whose predicate may raise
OrchInitializeFaulty ==
    /\ pc = "idle"
    /\ agents = <<>>
    /\ \E kinds \in [SpecializedAgents -> FaultyKinds] : impl' = kinds
    /\ agents' = <<MathAgent, TextAgent, TaskAgent>>
    /\ available_agents' =
           register_agent(register_agent(register_agent(<<>>, MathAgent), TextAgent), TaskAgent)
    /\ is_running' = TRUE
    /\ UNCHANGED <<conversation_history, calls, pc, response, CallLocals>>
    /\ UNCHANGED Aside

\* process_message does not look at is_running
OrchProcessMessageNoGuard ==
    /\ pc = "idle"
    /\ calls < MaxCalls
    /\ calls' = calls + 1
    /\ caller' = "orchestrator"
    /\ \E m \in Requests :
        /\ message' = m
        /\ conversation_history' = Append(conversation_history, HistoryEntry("user"))
        /\ LET selected == _select_agent(m)
           IN  selected_agent' = IF selected = None THEN TaskAgent ELSE selected
        /\ pc' = "invoke"
        /\ UNCHANGED response
    /\ UNCHANGED <<Registry, task_analysis, step_index, results, fail_step, twin_results,
                   invoked, agent_response>>
    /\ UNCHANGED Aside

\* AgentOrchestrator.process_message, lines 69-90: the guard, the user entry
\* of the history and the selection
OrchProcessMessage ==
    /\ pc = "idle"
    /\ calls < MaxCalls
    /\ calls' = calls + 1
    /\ caller' = "orchestrator"
    /\ \E m \in Requests :
        /\ message' = m
        /\ IF ~is_running
           THEN /\ response' = NotInitialized
                /\ pc' = "returned"
                /\ UNCHANGED <<conversation_history, selected_agent>>
           ELSE /\ conversation_history' =
                       Append(conversation_history, HistoryEntry("user"))
                /\ LET selected == _select_agent(m)
                   IN  selected_agent' = IF selected = None THEN TaskAgent ELSE selected
                /\ pc' = "invoke"
                /\ UNCHANGED response
    /\ UNCHANGED <<Registry, task_analysis, step_index, results, fail_step, twin_results,
                   invoked, agent_response>>
    /\ UNCHANGED Aside

\* a client calls TaskAgent.process_message of the initialized coordinator
\* itself, not through the orchestrator
TaskDirectCall ==
    /\ pc = "idle"
    /\ calls < MaxCalls
    /\ agents # <<>>
    /\ calls' = calls + 1
    /\ caller' = "client"
    /\ \E m \in Requests : message' = m
    /\ selected_agent' = TaskAgent
    /\ pc' = "invoke"
    /\ UNCHANGED <<Registry, conversation_history, response, task_analysis, step_index,
                   results, fail_step, twin_results, invoked, agent_response>>
    /\ UNCHANGED Aside

\* line 93 with a specialized agent selected: the handler runs
InvokeSpecialized ==
    /\ pc = "invoke"
    /\ selected_agent # TaskAgent
    /\ \E outcome \in Outcomes :
        /\ invoked' = Append(invoked, [agent |-> selected_agent, text |-> message,
                                       step |-> 0, outcome |-> outcome])
        /\ agent_response' = IF outcome = "raise" THEN Raised(ExceptionText)
                             ELSE HandlerResponse(selected_agent, outcome)
    /\ pc' = "finish"
    /\ UNCHANGED <<Registry, conversation_history, calls, response, caller, message,
                   selected_agent, task_analysis, step_index, results, fail_step,
                   twin_results>>
    /\ UNCHANGED Aside

\* the steps a handler can fail on are those some registered agent accepts;
\* 0 when there is none
FailSteps(steps) ==
    LET delegable == {j \in 1..Len(steps) : Candidates(steps[j]) # <<>>}
    IN  IF delegable = {} THEN {0} ELSE delegable

\* the coordinator hands a request no registered agent accepts back to the
\* routing it came from
TaskProcessMessageReroute ==
    /\ pc = "invoke"
    /\ selected_agent = TaskAgent
    /\ \E analysis \in {_analyze_task(message)} :
       \E delegate \in {IF available_agents # <<>> THEN best_agent(message) ELSE None} :
           /\ task_analysis' = IF delegate # None THEN analysis ELSE task_analysis
           /\ IF delegate # None
              THEN pc' = "delegate"
              ELSE pc' = "invoke"
    /\ UNCHANGED <<Registry, conversation_history, calls, response, caller, message,
                   selected_agent, results, twin_results, invoked, agent_response,
                   step_index, fail_step>>
    /\ UNCHANGED Aside

\* line 93 with the coordinator selected: TaskAgent.process_message, lines
\* 64-77, up to the first handler invocation; a predicate that raises in
\* _delegate_if_possible reaches the except clause, lines 83-91
TaskProcessMessage ==
    /\ pc = "invoke"
    /\ selected_agent = TaskAgent
    /\ \E analysis \in {_analyze_task(message)} :
       \E delegate \in {IF available_agents # <<>> THEN best_agent(message) ELSE None} :
           /\ task_analysis' = analysis
           /\ IF delegate = PredicateError
              THEN /\ agent_response' = TaskError(PredicateText)
                   /\ pc' = "finish"
                   /\ UNCHANGED <<step_index, fail_step>>
              ELSE IF delegate # None
              THEN /\ pc' = "delegate"
                   /\ UNCHANGED <<step_index, fail_step, agent_response>>
              ELSE IF analysis.complexity = "complex"
              THEN /\ pc' = "complex"
                   /\ step_index' = 1
                   /\ fail_step' \in FailSteps(analysis.steps)
                   /\ UNCHANGED agent_response
              ELSE /\ pc' = "simple"
                   /\ UNCHANGED <<step_index, fail_step, agent_response>>
    /\ UNCHANGED <<Registry, conversation_history, calls, response, caller, message,
                   selected_agent, results, twin_results, invoked>>
    /\ UNCHANGED Aside

\* the coordinator registers the agent it delegates to once more
TaskDelegateRegisters ==
    /\ pc = "delegate"
    /\ \E delegate \in {best_agent(message)} :
       \E outcome \in Outcomes :
            /\ invoked' = Append(invoked, [agent |-> delegate, text |-> message,
                                           step |-> 0, outcome |-> outcome])
            /\ agent_response' =
                   IF outcome = "raise" THEN TaskError(ExceptionText)
                   ELSE [HandlerResponse(delegate, outcome) EXCEPT !.delegated_to = delegate]
            /\ available_agents' = register_agent(available_agents, delegate)
    /\ pc' = "finish"
    /\ UNCHANGED <<is_running, agents, impl, conversation_history, calls, response, caller,
                   message, selected_agent, task_analysis, step_index, results, fail_step,
                   twin_results>>
    /\ UNCHANGED Aside

\* TaskAgent._delegate_if_possible, lines 169-179, and the except clause of
\* TaskAgent.process_message, lines 83-91
TaskDelegate ==
    /\ pc = "delegate"
    /\ \E delegate \in {best_agent(message)} :
       \E outcome \in Outcomes :
            /\ invoked' = Append(invoked, [agent |-> delegate, text |-> message,
                                           step |-> 0, outcome |-> outcome])
            /\ agent_response' =
                   IF outcome = "raise" THEN TaskError(ExceptionText)
                   ELSE [HandlerResponse(delegate, outcome) EXCEPT !.delegated_to = delegate]
    /\ pc' = "finish"
    /\ UNCHANGED <<Registry, conversation_history, calls, response, caller, message,
                   selected_agent, task_analysis, step_index, results, fail_step,
                   twin_results>>
    /\ UNCHANGED Aside

AllSucceed == [a \in SpecializedAgents |-> "ok"]

\* a handler exception leaves the loop over the steps and reaches the except
\* clause of TaskAgent.process_message
ComplexStepAbortOnRaise ==
    /\ pc = "complex"
    /\ step_index <= Len(task_analysis.steps)
    /\ \E step \in {task_analysis.steps[step_index]} :
       \E candidates \in {Candidates(step)} :
       \E row \in [SpecializedAgents -> Outcomes] :
            LET log == TryLog(step_index, step, candidates, row, 1)
                raised == \E e \in 1..Len(log) : log[e].outcome = "raise"
            IN  /\ invoked' = invoked \o log
                /\ IF raised
                   THEN /\ agent_response' = TaskError(ExceptionText)
                        /\ pc' = "finish"
                        /\ UNCHANGED <<results, twin_results, step_index>>
                   ELSE /\ results' = Append(results, RunStep(step_index, step, candidates, row))
                        /\ twin_results' = Append(twin_results,
                               RunStep(step_index, step, candidates,
                                       IF step_index = fail_step THEN AllSucceed ELSE row))
                        /\ step_index' = step_index + 1
                        /\ UNCHANGED <<agent_response, pc>>
    /\ UNCHANGED <<Registry, conversation_history, calls, response, caller, message,
                   selected_agent, task_analysis, fail_step>>
    /\ UNCHANGED Aside

\* TaskAgent._handle_complex_task, lines 199-225: one step of the pass.  The
\* twin pass handles the same step with the same handler outcomes, except
\* that on step fail_step every handler succeeds.  A predicate that raises
\* at line 209 ends the pass in the except clause of process_message, lines
\* 83-91.
ComplexStep ==
    /\ pc = "complex"
    /\ step_index <= Len(task_analysis.steps)
    /\ \E step \in {task_analysis.steps[step_index]} :
       \E candidates \in {Candidates(step)} :
       \E row \in [SpecializedAgents -> Outcomes] :
            /\ invoked' = invoked \o TryLog(step_index, step, candidates, row, 1)
            /\ IF PredicateReached(step, candidates, row)
               THEN /\ agent_response' = TaskError(PredicateText)
                    /\ pc' = "finish"
                    /\ UNCHANGED <<results, twin_results, step_index>>
               ELSE /\ results' = Append(results, RunStep(step_index, step, candidates, row))
                    /\ twin_results' = Append(twin_results,
                           RunStep(step_index, step, candidates,
                                   IF step_index = fail_step THEN AllSucceed ELSE row))
                    /\ step_index' = step_index + 1
                    /\ UNCHANGED <<agent_response, pc>>
    /\ UNCHANGED <<Registry, conversation_history, calls, response, caller, message,
                   selected_agent, task_analysis, fail_step>>
    /\ UNCHANGED Aside

\* completed_steps counts the steps a handler was tried on
ComplexFinishCountTried ==
    /\ pc = "complex"
    /\ step_index > Len(task_analysis.steps)
    /\ agent_response' =
           [Report(task_analysis.steps, results) EXCEPT
               !.completed_steps =
                   Cardinality({j \in 1..Len(results) :
                                   results[j].status = "completed" \/ results[j].error # None})]
    /\ pc' = "finish"
    /\ UNCHANGED <<Registry, conversation_history, calls, response, caller, message,
                   selected_agent, task_analysis, step_index, results, fail_step,
                   twin_results, invoked>>
    /\ UNCHANGED Aside

\* TaskAgent._handle_complex_task, lines 227-233, _format_complex_response
\* and TaskAgent.process_message, lines 78-81: the Report
ComplexFinish ==
    /\ pc = "complex"
    /\ step_index > Len(task_analysis.steps)
    /\ agent_response' = Report(task_analysis.steps, results)
    /\ pc' = "finish"
    /\ UNCHANGED <<Registry, conversation_history, calls, response, caller, message,
                   selected_agent, task_analysis, step_index, results, fail_step,
                   twin_results, invoked>>
    /\ UNCHANGED Aside

\* TaskAgent._handle_simple_task, _format_simple_response and
\* TaskAgent.process_message, lines 78-81; call_mcp_tool returns a
\* dictionary whatever the transport does (base_agent.py lines 62-83)
SimpleTask ==
    /\ pc = "simple"
    /\ agent_response' = SimpleResponse
    /\ pc' = "finish"
    /\ UNCHANGED <<Registry, conversation_history, calls, response, caller, message,
                   selected_agent, task_analysis, step_index, results, fail_step,
                   twin_results, invoked>>
    /\ UNCHANGED Aside

\* the handler's exception is not caught and reaches the caller
OrchFinishNoCatch ==
    /\ pc = "finish"
    /\ caller = "orchestrator"
    /\ response' =
           IF agent_response.kind = "raised" THEN agent_response
           ELSE [agent_response EXCEPT !.selected_agent = selected_agent,
                                       !.conversation_turn = Len(conversation_history)]
    /\ conversation_history' =
           IF agent_response.kind = "raised" THEN conversation_history
           ELSE Append(conversation_history, HistoryEntry("assistant"))
    /\ pc' = "returned"
    /\ UNCHANGED <<Registry, calls, CallLocals>>
    /\ UNCHANGED Aside

\* the error response is returned without an entry in the history
OrchFinishSilentOnError ==
    /\ pc = "finish"
    /\ caller = "orchestrator"
    /\ IF agent_response.kind = "raised"
       THEN /\ response' = SystemError(agent_response.error)
            /\ UNCHANGED conversation_history
       ELSE /\ response' = [agent_response EXCEPT
                               !.selected_agent = selected_agent,
                               !.conversation_turn = Len(conversation_history)]
            /\ conversation_history' =
                   Append(conversation_history, HistoryEntry("assistant"))
    /\ pc' = "returned"
    /\ UNCHANGED <<Registry, calls, CallLocals>>
    /\ UNCHANGED Aside

\* AgentOrchestrator.process_message, lines 95-109 after the handler
\* returned, lines 111-130 after it raised
OrchFinish ==
    /\ pc = "finish"
    /\ caller = "orchestrator"
    /\ IF agent_response.kind = "raised"
       THEN /\ response' = SystemError(agent_response.error)
            /\ conversation_history' =
                   Append(conversation_history, HistoryEntry("assistant"))
       ELSE /\ response' = [agent_response EXCEPT
                               !.selected_agent = selected_agent,
                               !.conversation_turn = Len(conversation_history)]
            /\ conversation_history' =
                   Append(conversation_history, HistoryEntry("assistant"))
    /\ pc' = "returned"
    /\ UNCHANGED <<Registry, calls, CallLocals>>
    /\ UNCHANGED Aside

\* TaskAgent.process_message returns to the client that called it
TaskReturn ==
    /\ pc = "finish"
    /\ caller = "client"
    /\ response' = agent_response
    /\ pc' = "returned"
    /\ UNCHANGED <<Registry, conversation_history, calls, CallLocals>>
    /\ UNCHANGED Aside

\* the caller has the response (main.py line 93, web_api.py line 85, demo.py
\* line 71): the frame of the call is gone
ReturnToCaller ==
    /\ pc = "returned"
    /\ pc' = "idle"
    /\ message' = ""
    /\ selected_agent' = None
    /\ task_analysis' = NoAnalysis
    /\ step_index' = 0
    /\ results' = <<>>
    /\ fail_step' = 0
    /\ twin_results' = <<>>
    /\ invoked' = <<>>
    /\ caller' = None
    /\ agent_response' = NoResponse
    /\ response' = NoResponse
    /\ UNCHANGED <<Registry, conversation_history, calls>>
    /\ UNCHANGED Aside

Next ==
    \/ OrchInitialize
    \/ OrchProcessMessage
    \/ TaskDirectCall
    \/ InvokeSpecialized
    \/ TaskProcessMessage
    \/ TaskDelegate
    \/ ComplexStep
    \/ ComplexFinish
    \/ SimpleTask
    \/ OrchFinish
    \/ TaskReturn
    \/ ReturnToCaller

Spec == Init /\ [][Next]_vars

\* the system with handlers whose predicate may raise
NextFaulty ==
    \/ OrchInitializeFaulty
    \/ OrchProcessMessage
    \/ TaskDirectCall
    \/ InvokeSpecialized
    \/ TaskProcessMessage
    \/ TaskDelegate
    \/ ComplexStep
    \/ ComplexFinish
    \/ SimpleTask
    \/ OrchFinish
    \/ TaskReturn
    \/ ReturnToCaller

SpecFaulty == Init /\ [][NextFaulty]_vars

\* ------------------------------------------------------- overlapping calls
\* web_api.py's chat awaits orchestrator.process_message of the one
\* orchestrator for every request, so a second call can begin while the first
\* is suspended at the await of its handler (orchestrator.py line 93).  Of the
\* second call only what it does to the history is kept: other.entry is the
\* index of its user entry, other.turn its conversation_turn.
\* lines 69-80 of the second call
OtherProcessMessage ==
    /\ other.pc = "idle"
    /\ other.calls < MaxCalls
    /\ IF ~is_running
       THEN /\ other' = [other EXCEPT !.pc = "returned", !.calls = @ + 1]
            /\ UNCHANGED conversation_history
       ELSE /\ conversation_history' = Append(conversation_history, HistoryEntry("user"))
            /\ other' = [other EXCEPT !.pc = "awaiting", !.calls = @ + 1,
                                      !.entry = Len(conversation_history) + 1]
    /\ UNCHANGED <<Registry, calls, pc, response, CallLocals, recent, wait>>

\* lines 93-109 of the second call after its handler returned, lines 111-130
\* after it raised
OtherFinish ==
    /\ other.pc = "awaiting"
    /\ \E outcome \in Outcomes :
           other' = [other EXCEPT !.pc = "returned",
                                  !.turn = IF outcome = "raise" THEN 0
                                           ELSE Len(conversation_history)]
    /\ conversation_history' = Append(conversation_history, HistoryEntry("assistant"))
    /\ UNCHANGED <<Registry, calls, pc, response, CallLocals, recent, wait>>

\* the second caller has its response
OtherReturn ==
    /\ other.pc = "returned"
    /\ other' = [other EXCEPT !.pc = "idle", !.entry = 0, !.turn = 0]
    /\ UNCHANGED <<Registry, conversation_history, calls, pc, response, CallLocals,
                   recent, wait>>

NextOverlap ==
    \/ OrchInitialize
    \/ OrchProcessMessage
    \/ TaskDirectCall
    \/ InvokeSpecialized
    \/ TaskProcessMessage
    \/ TaskDelegate
    \/ ComplexStep
    \/ ComplexFinish
    \/ SimpleTask
    \/ OrchFinish
    \/ TaskReturn
    \/ ReturnToCaller
    \/ OtherProcessMessage
    \/ OtherFinish
    \/ OtherReturn

SpecOverlap == Init /\ [][NextOverlap]_vars

\* ------------------------------------------------------ reading the history
\* the list slice history[start:]: a negative start counts from the end, and
\* a start outside the list is clipped to it
SliceFrom(history, start) ==
    LET n == Len(history)
        lower == IF start < 0 THEN (IF start + n < 0 THEN 0 ELSE start + n)
                 ELSE (IF start > n THEN n ELSE start)
    IN  SubSeq(history, lower + 1, n)

\* AgentOrchestrator.get_conversation_history and BaseAgent.get_recent_history:
\* self.conversation_history[-count:]
get_conversation_history(history, count) == SliceFrom(history, 0 - count)

\* _add_to_history is called
CallAddEntry ==
    /\ Len(conversation_history) < MaxEntries
    /\ \E role \in {"user", "assistant"} :
           conversation_history' = Append(conversation_history, HistoryEntry(role))
    /\ UNCHANGED <<Registry, calls, pc, response, CallLocals, other, recent, wait>>

\* get_conversation_history(count) is called
CallGetConversationHistory ==
    /\ \E count \in 0..MaxCount :
           recent' = [called |-> TRUE, count |-> count, history |-> conversation_history,
                      returned |-> get_conversation_history(conversation_history, count)]
    /\ UNCHANGED <<Registry, conversation_history, calls, pc, response, CallLocals,
                   other, wait>>

NextHistory ==
    \/ CallAddEntry
    \/ CallGetConversationHistory

SpecHistory == Init /\ [][NextHistory]_vars

\* ------------------------------------------------------ wait_for_mcp_server
\* what one connection attempt gives: status 200, another status, or an
\* exception of the client (connection refused, timeout after 2.0 s)
AttemptOutcomes == {"200", "other", "raise"}

\* wait_for_mcp_server(host, port, max_attempts) is called; with
\* max_attempts = 0 the loop body never runs and line 196 returns False
CallWaitForMcpServer ==
    /\ wait.pc = "idle"
    /\ \E max_attempts \in 0..MaxAttempts :
           wait' = IF max_attempts = 0
                   THEN [NoWait EXCEPT !.pc = "done", !.result = "False"]
                   ELSE [NoWait EXCEPT !.pc = "attempt", !.max_attempts = max_attempts]
    /\ UNCHANGED <<Registry, conversation_history, calls, pc, response, CallLocals,
                   other, recent>>

\* the attempt is followed by a sleep whatever its number
WaitAttemptAlwaysSleeps ==
    /\ wait.pc = "attempt"
    /\ \E outcome \in AttemptOutcomes :
           wait' = IF outcome = "200"
                   THEN [wait EXCEPT !.log = Append(@, outcome), !.pc = "done",
                                     !.result = "True"]
                   ELSE [wait EXCEPT !.log = Append(@, outcome), !.pc = "sleep"]
    /\ UNCHANGED <<Registry, conversation_history, calls, pc, response, CallLocals,
                   other, recent>>

\* lines 184-193 and 196: one connection attempt; wait.attempt is the loop
\* variable, counting from 0
WaitAttempt ==
    /\ wait.pc = "attempt"
    /\ \E outcome \in AttemptOutcomes :
           wait' = IF outcome = "200"
                   THEN [wait EXCEPT !.log = Append(@, outcome), !.pc = "done",
                                     !.result = "True"]
                   ELSE IF wait.attempt < wait.max_attempts - 1
                   THEN [wait EXCEPT !.log = Append(@, outcome), !.pc = "sleep"]
                   ELSE [wait EXCEPT !.log = Append(@, outcome), !.pc = "done",
                                     !.result = "False"]
    /\ UNCHANGED <<Registry, conversation_history, calls, pc, response, CallLocals,
                   other, recent>>

\* line 194: asyncio.sleep(delay), then the next iteration
WaitSleep ==
    /\ wait.pc = "sleep"
    /\ wait' = [wait EXCEPT !.log = Append(@, "sleep"), !.attempt = @ + 1,
                            !.pc = "attempt"]
    /\ UNCHANGED <<Registry, conversation_history, calls, pc, response, CallLocals,
                   other, recent>>

NextWait ==
    \/ CallWaitForMcpServer
    \/ WaitAttempt
    \/ WaitSleep

\* client.get has a timeout of 2.0 s and asyncio.sleep(delay) ends: the event
\* loop resumes the coroutine, so a step of the call that can be taken is
\* taken
WaitStep == WaitAttempt \/ WaitSleep

SpecWait == Init /\ [][NextWait]_vars /\ WF_vars(WaitStep)

\* ---------------------------------------------------------------- lifecycle
\* AgentOrchestrator.initialize, lines 28-48: the agents are created and
\* entered in self.agents; their initialize coroutines are awaited
OrchInitializeBegin ==
    /\ agents = <<>>
    /\ \E kinds \in [SpecializedAgents -> HandlerKinds] : impl' = kinds
    /\ agents' = <<MathAgent, TextAgent, TaskAgent>>
    /\ UNCHANGED <<is_running, available_agents, conversation_history, calls, pc, response,
                   CallLocals>>
    /\ UNCHANGED Aside

\* AgentOrchestrator.initialize, lines 50-56: the specialized agents are
\* registered with the coordinator, then is_running
OrchInitializeEnd ==
    /\ agents # <<>>
    /\ available_agents = <<>>
    /\ ~is_running
    /\ available_agents' =
           register_agent(register_agent(register_agent(<<>>, MathAgent), TextAgent), TaskAgent)
    /\ is_running' = TRUE
    /\ UNCHANGED <<agents, impl, conversation_history, calls, pc, response, CallLocals>>
    /\ UNCHANGED Aside

\* AgentOrchestrator.shutdown: BaseAgent.shutdown of every agent only logs,
\* then is_running is False
OrchShutdown ==
    /\ is_running
    /\ is_running' = FALSE
    /\ UNCHANGED <<agents, available_agents, impl, conversation_history, calls, pc, response,
                   CallLocals>>
    /\ UNCHANGED Aside

\* the orchestrator from construction to shutdown, with calls of
\* process_message, and of the coordinator's, at any time
NextLifecycle ==
    \/ OrchInitializeBegin
    \/ OrchInitializeEnd
    \/ OrchShutdown
    \/ OrchProcessMessage
    \/ TaskDirectCall
    \/ InvokeSpecialized
    \/ TaskProcessMessage
    \/ TaskDelegate
    \/ ComplexStep
    \/ ComplexFinish
    \/ SimpleTask
    \/ OrchFinish
    \/ TaskReturn
    \/ ReturnToCaller

SpecLifecycle == Init /\ [][NextLifecycle]_vars

\* ---------------------------------------------------- registration by hand
\* a client calls register_agent of the orchestrator's coordinator with one
\* of the three agents, the coordinator itself included
CallRegisterAgent ==
    /\ pc = "idle"
    /\ agents # <<>>
    /\ Len(available_agents) < MaxRegistered
    /\ \E agent \in {MathAgent, TextAgent, TaskAgent} :
           available_agents' = register_agent(available_agents, agent)
    /\ UNCHANGED <<is_running, agents, impl, conversation_history, calls, pc, response,
                   CallLocals>>
    /\ UNCHANGED Aside

\* the coordinator with agents registered by initialize and by hand, called
\* by a client
NextRegistry ==
    \/ OrchInitialize
    \/ CallRegisterAgent
    \/ TaskDirectCall
    \/ TaskProcessMessage
    \/ TaskDelegate
    \/ ComplexStep
    \/ ComplexFinish
    \/ SimpleTask
    \/ TaskReturn
    \/ ReturnToCaller

SpecRegistry == Init /\ [][NextRegistry]_vars

\* a step inside a call of process_message; at most one of these is enabled
\* in a state
CallStep ==
    \/ InvokeSpecialized
    \/ TaskProcessMessage
    \/ TaskDelegate
    \/ ComplexStep
    \/ ComplexFinish
    \/ SimpleTask
    \/ OrchFinish
    \/ TaskReturn

\* Every handler invocation and tool call returns or raises, and the event
\* loop runs a coroutine that can go on: the step inside a call is taken.
\* Whether a client makes a call or picks up the response is up to the client.
Fairness == WF_vars(CallStep)

LiveSpec == Init /\ [][Next]_vars /\ Fairness

\* -------------------------------------------------------------- unit level
\* The methods of the orchestrator and of the coordinator called one at a
\* time, as a unit test calls them, on requests that also show the
\* connectives, numbered markers, blanks and indicator words the requests of
\* Spec do not have.  selected_agent and task_analysis hold what the last
\* call returned.
UnitTexts ==
    { " ", " and ", "  hello  ", "hello and ",
      "calculate 1+1 and then analyze sentiment",
      "hello then summary", "hello. summary",
      "1. hello 2. summary", "1) hello", "version 2.",
      "count words in text", "analyze sentiment text words",
      "calculate 1+1 and summary" }

UnitRequests == Tasks \cup {""} \cup UnitTexts

\* what a unit-level call leaves alone
UnitRest == <<response, step_index, results, fail_step, twin_results, invoked, caller,
              agent_response>>

\* AgentOrchestrator._select_agent(m) is called
CallSelectAgent ==
    /\ pc \in {"idle", "selected", "analyzed"}
    /\ calls < MaxUnitCalls
    /\ calls' = calls + 1
    /\ \E m \in UnitRequests :
        /\ message' = m
        /\ selected_agent' = _select_agent(m)
    /\ task_analysis' = NoAnalysis
    /\ pc' = "selected"
    /\ UNCHANGED <<Registry, conversation_history, UnitRest>>
    /\ UNCHANGED Aside

\* AgentOrchestrator._add_to_history(role, ...) is called
CallAddToHistory ==
    /\ pc \in {"idle", "selected", "analyzed"}
    /\ Len(conversation_history) < MaxHistory
    /\ \E role \in {"user", "assistant"} :
        conversation_history' = Append(conversation_history, HistoryEntry(role))
    /\ UNCHANGED <<Registry, calls, pc, message, selected_agent, task_analysis, UnitRest>>
    /\ UNCHANGED Aside

\* TaskAgent._analyze_task(m) is called; it calls _extract_steps(m)
CallAnalyzeTask ==
    /\ pc \in {"idle", "selected", "analyzed"}
    /\ calls < MaxUnitCalls
    /\ calls' = calls + 1
    /\ \E m \in UnitRequests :
        /\ message' = m
        /\ task_analysis' = _analyze_task(m)
    /\ selected_agent' = None
    /\ pc' = "analyzed"
    /\ UNCHANGED <<Registry, conversation_history, UnitRest>>
    /\ UNCHANGED Aside

NextUnit ==
    \/ OrchInitialize
    \/ CallSelectAgent
    \/ CallAddToHistory
    \/ CallAnalyzeTask

SpecUnit == Init /\ [][NextUnit]_vars

\* ------------------------------------------------------------- properties
\* the call through AgentOrchestrator.process_message has returned
OrchReturned == pc = "returned" /\ caller = "orchestrator" /\ is_running

\* a Report has been returned, to the orchestrator's caller or to the client
\* of the coordinator
ReportReturned == pc = "returned" /\ response.kind = "report"

\* the invocations of the call in flight that were made for step j (0: for
\* the whole request)
InvokedFor(j) == {e \in 1..Len(invoked) : invoked[e].step = j}

\* the steps of the returned Report with the given status
StepsWith(status) ==
    {j \in 1..Len(response.step_results) : response.step_results[j].status = status}

\* C1: a call of AgentOrchestrator.process_message on an initialized
\* orchestrator returns a response: a handler's outcome, a Report, the
\* coordinator's own answer, or an error response with success false.  No
\* exception reaches the caller, whatever the handlers do.
C1_NeverPropagates ==
    OrchReturned =>
        /\ response.kind \in {"outcome", "report", "simple", "error"}
        /\ response.kind = "error" => ~response.success

\* the selected handler raised and the caller got the error response
C1_Witness ==
    /\ OrchReturned
    /\ \E e \in InvokedFor(0) : invoked[e].outcome = "raise"
    /\ response.kind = "error"
    /\ response.agent = "System"

\* C2: in _handle_complex_task a handler failing on step fail_step does not
\* end the pass and changes no other step: every step is in results, every
\* other step has the status, handled_by and result of the twin pass (where
\* the handlers succeed on fail_step and do the same elsewhere), and every
\* later step that a registered agent accepts was handed to a handler.
C2_FailureIsolation ==
    (fail_step > 0 /\ pc \in {"finish", "returned"}) =>
        /\ Len(results) = Len(task_analysis.steps)
        /\ Len(twin_results) = Len(task_analysis.steps)
        /\ \A j \in 1..Len(results) : j # fail_step =>
              /\ results[j].status = twin_results[j].status
              /\ results[j].handled_by = twin_results[j].handled_by
              /\ results[j].result = twin_results[j].result
        /\ \A j \in (fail_step + 1)..Len(task_analysis.steps) :
              Candidates(task_analysis.steps[j]) # <<>> => InvokedFor(j) # {}

\* a handler raised on step fail_step, which the twin pass completed, and a
\* later step was completed
C2_Witness ==
    /\ pc = "returned"
    /\ fail_step > 0
    /\ fail_step < Len(results)
    /\ \E e \in InvokedFor(fail_step) : invoked[e].outcome = "raise"
    /\ results[fail_step].status # twin_results[fail_step].status
    /\ results[fail_step + 1].status = "completed"

\* C3: a step whose handler raised is in the Report with status failed and
\* the exception's message in its error field.
C3_RaisedStepIsFailed ==
    ReportReturned =>
        \A e \in 1..Len(invoked) :
            (invoked[e].step > 0 /\ invoked[e].outcome = "raise") =>
                /\ response.step_results[invoked[e].step].status = "failed"
                /\ response.step_results[invoked[e].step].error = ExceptionText

\* C4: a step whose handler returned an outcome with success false is in the
\* Report with status failed and the outcome's error, and is not counted in
\* completed_steps.
C4_ErrorOutcomeIsFailed ==
    ReportReturned =>
        /\ \A e \in 1..Len(invoked) :
              (invoked[e].step > 0 /\ invoked[e].outcome = "err") =>
                  /\ response.step_results[invoked[e].step].status = "failed"
                  /\ response.step_results[invoked[e].step].error = ErrorText
        /\ response.completed_steps <=
              Cardinality({j \in 1..Len(response.step_results) :
                              \A e \in InvokedFor(j) : invoked[e].outcome # "err"})

\* C5: in every Report completed_steps is the number of steps with status
\* completed and total_steps is the number of entries of the step list.
C5_ReportCounts ==
    ReportReturned =>
        /\ response.completed_steps = Cardinality(StepsWith("completed"))
        /\ response.total_steps = Len(response.step_results)

\* a Report of a pass in which a handler raised, with a completed step and
\* a step that is not completed
C5_Witness ==
    /\ ReportReturned
    /\ \E e \in 1..Len(invoked) : invoked[e].outcome = "raise"
    /\ response.completed_steps = 1
    /\ response.total_steps = 2

\* C6: the Report's step list has one entry per step of _extract_steps, in
\* that order, and step_number is the 1-based position, whatever the
\* handlers did.
C6_StepOrder ==
    ReportReturned =>
        LET steps == _extract_steps(message)
        IN  /\ Len(response.step_results) = Len(steps)
            /\ \A j \in 1..Len(steps) :
                  /\ response.step_results[j].step_number = j
                  /\ response.step_results[j].step_description = steps[j]

\* a Report of two different steps, the first with a handler that raised,
\* the second completed
C6_Witness ==
    /\ ReportReturned
    /\ Len(response.step_results) = 2
    /\ response.step_results[1].step_description # response.step_results[2].step_description
    /\ \E e \in InvokedFor(1) : invoked[e].outcome = "raise"
    /\ response.step_results[1].status # "completed"
    /\ response.step_results[2].status = "completed"

\* C7: in every Report each step has one of the statuses completed, failed,
\* needs_attention; none is planned.
C7_TerminalStatus ==
    ReportReturned =>
        \A j \in 1..Len(response.step_results) :
            response.step_results[j].status \in {"completed", "failed", "needs_attention"}

\* a Report with a step no handler was invoked for and a completed step
C7_Witness ==
    /\ ReportReturned
    /\ \E j \in 1..Len(response.step_results) :
          /\ InvokedFor(j) = {}
          /\ response.step_results[j].status = "needs_attention"
    /\ StepsWith("completed") # {}

\* C8: the orchestrator hands the whole request to one specialized handler
\* only when the request shows no multi-step indicator (_extract_steps gives
\* one step); a request with several steps is decomposed and answered with
\* a Report, even when a specialized handler accepts the whole request.
C8_MultiStepIsDecomposed ==
    OrchReturned =>
        LET multi_step == Len(_extract_steps(message)) > 1
        IN  /\ InvokedFor(0) # {} => ~multi_step
            /\ multi_step => agent_response.kind = "report"

\* the scores of the specialized handlers for the request in flight
AllScoreZero == \A a \in SpecializedAgents : Score(a, message) = 0

\* C9: the selection scores the specialized handlers only: the coordinator
\* processes the request if and only if every specialized handler scores 0,
\* also when the coordinator's own can_handle accepts the request.
C9_CoordinatorIffNoMatch ==
    (pc = "invoke" /\ caller = "orchestrator") =>
        /\ (selected_agent = TaskAgent) <=> AllScoreZero
        /\ selected_agent \in SpecializedAgents \cup {TaskAgent}

\* a request the coordinator's can_handle accepts goes to a specialized
\* handler
C9_Witness ==
    /\ pc = "invoke"
    /\ caller = "orchestrator"
    /\ TaskCanHandle(message)
    /\ selected_agent \in SpecializedAgents

\* C10: the selected specialized handler has the maximum score, and of two
\* handlers with the maximum score the one registered first, MathAgent, is
\* selected.
C10_MaxScoreFirstWins ==
    (pc = "invoke" /\ caller = "orchestrator" /\ selected_agent # TaskAgent) =>
        /\ \A a \in SpecializedAgents : Score(a, message) <= Score(selected_agent, message)
        /\ Score(MathAgent, message) = Score(TextAgent, message) => selected_agent = MathAgent

\* both handlers have the same positive score
C10_Witness ==
    /\ pc = "invoke"
    /\ caller = "orchestrator"
    /\ selected_agent = MathAgent
    /\ Score(MathAgent, message) = Score(TextAgent, message)
    /\ Score(TextAgent, message) > 0

InCall == pc \in {"invoke", "delegate", "complex", "simple", "finish"}

\* C12: when every handler invocation returns or raises, every call of
\* process_message returns, and returns one response: the response is set
\* once, when the call returns, it is a response, and routing is entered
\* only at the start of a call, never again by the coordinator.
C12_EventuallyOneResponse ==
    /\ InCall ~> (pc = "returned")
    /\ [](pc = "returned" => response.kind # "none")
    /\ [][response' # response => ((pc # "returned" /\ pc' = "returned") \/ pc' = "idle")]_vars
    /\ [][pc' = "invoke" => pc = "idle"]_vars

\* the coordinator has answered a request that no handler accepts and that
\* has no steps to delegate
C12_Witness ==
    /\ pc = "returned"
    /\ caller = "orchestrator"
    /\ selected_agent = TaskAgent
    /\ response.kind = "simple"
    /\ invoked = <<>>

\* TaskAgent.process_message has been called with the request in flight
CoordinatorCalled == selected_agent = TaskAgent /\ pc \notin {"idle", "invoke"}

\* C13: no handler's process_message is called with an empty or
\* whitespace-only string: not a specialized handler's, for a request or
\* for a step, and not the coordinator's.
C13_NeverInvokedBlank ==
    /\ \A e \in 1..Len(invoked) : Strip(invoked[e].text) # ""
    /\ CoordinatorCalled => Strip(message) # ""

\* C14: the empty request gets a Report with total_steps 1 and
\* completed_steps 1, with success.
C14_EmptyRequestReport ==
    (OrchReturned /\ message = "") =>
        /\ response.kind = "report"
        /\ response.success
        /\ response.total_steps = 1
        /\ response.completed_steps = 1

\* the step begins with a connective word
BeginsWithConnective(step) ==
    \E k \in connectors :
        /\ Len(step) > Len(k)
        /\ Lower(SubSeq(step, 1, Len(k))) = k
        /\ IsSpace(Char(step, Len(k) + 1))

\* C15: a request "A and then B" is decomposed into the two steps A and B,
\* and no step begins with a connective word.
C15_ConsecutiveConnectives ==
    pc = "analyzed" =>
        /\ message = "calculate 1+1 and then analyze sentiment" =>
              task_analysis.steps = <<"calculate 1+1", "analyze sentiment">>
        /\ \A j \in 1..Len(task_analysis.steps) : ~BeginsWithConnective(task_analysis.steps[j])

\* the request has no numbered marker and no connective between blanks
Undivided(request) ==
    \A p \in 1..Len(request) : ~NumberedAt(request, p) /\ ~SeparatorAt(request, p)

\* C16: _extract_steps returns at least one step, and for a request without
\* numbered markers and without a connective boundary exactly one step, the
\* trimmed request.
C16_StepsNeverEmpty ==
    pc = "analyzed" =>
        /\ Len(task_analysis.steps) >= 1
        /\ Undivided(message) => task_analysis.steps = <<Strip(message)>>

\* an undivided request with blanks around it has been decomposed
C16_Witness ==
    /\ pc = "analyzed"
    /\ message = "  hello  "
    /\ Undivided(message)
    /\ task_analysis.steps = <<"hello">>

\* C17: every score of a handler for a request is in [0, 1] (1.0 is
\* OtherScore).
C17_ScoreInUnitInterval ==
    pc = "selected" =>
        \A a \in SpecializedAgents : Score(a, message) >= 0 /\ Score(a, message) <= OtherScore

\* the invocation e is the first one made for its step
FirstForStep(e) == \A d \in 1..(e - 1) : invoked[d].step # invoked[e].step

\* C18: in per-step delegation a step is handed to the handler that
\* _select_agent returns for the step's text.
C18_StepGoesToSelected ==
    \A e \in 1..Len(invoked) :
        (invoked[e].step > 0 /\ FirstForStep(e)) => invoked[e].agent = _select_agent(invoked[e].text)

\* C19: in a delegation pass the steps are handled in their order and each
\* step causes at most one handler invocation.
C19_OneInvocationPerStep ==
    /\ \A e \in 1..Len(invoked) : \A d \in 1..(e - 1) : invoked[d].step <= invoked[e].step
    /\ \A e \in 1..Len(invoked) : invoked[e].step > 0 => FirstForStep(e)

\* some registered handler's predicate raises on the text
SomePredicateRaises(text) ==
    \E k \in 1..Len(available_agents) : PredicateRaises(available_agents[k], text)

\* C20: an exception of a handler's can_handle counts as score 0 or as a
\* non-match in the top-level selection, in the coordinator's whole-message
\* delegation and in the per-step delegation: it never becomes the response,
\* a complex request still gets its Report with a result for every step, and
\* a request no other handler accepts still gets the coordinator's answer.
C20_PredicateErrorIsNonMatch ==
    /\ pc \in {"finish", "returned"} => agent_response.error # PredicateText
    /\ (pc = "returned" /\ is_running /\ selected_agent = TaskAgent
          /\ SomePredicateRaises(message) /\ invoked = <<>>) =>
           response.kind = "simple"
    /\ (pc = "returned" /\ task_analysis.complexity = "complex" /\ step_index > 0) =>
           response.kind = "report" /\ Len(response.step_results) = Len(task_analysis.steps)

\* the segments of a split that are not blank
NonBlank(parts) == {j \in 1..Len(parts) : Strip(parts[j]) # ""}

\* C21: a split on connective words is accepted only if it yields more than
\* one non-empty trimmed segment; with at most one, the whole trimmed request
\* is the single step.
C21_SplitNeedsTwoSegments ==
    pc = "analyzed" =>
        ((NumberedFrom(message, 1) = <<>>
            /\ Cardinality(NonBlank(SplitFrom(message, 1))) <= 1) =>
         task_analysis.steps = <<Strip(message)>>)

\* numbered markers or connective words divide the request
Divided(request) ==
    NumberedFrom(request, 1) # <<>> \/ Len(SplitFrom(request, 1)) > 1

\* C22: no step that numbered-marker or connective splitting emits is empty
\* or blank; when every segment is blank the untrimmed request is the sole
\* step.
C22_NoBlankStep ==
    (pc = "analyzed" /\ Divided(message)) =>
        \/ /\ task_analysis.steps # <<>>
           /\ \A j \in 1..Len(task_analysis.steps) : Strip(task_analysis.steps[j]) # ""
        \/ task_analysis.steps = <<message>>

C24_NoSelfDelegation ==
    /\ \A k \in 1..Len(available_agents) : available_agents[k] # TaskAgent
    /\ \A e \in 1..Len(invoked) : invoked[e].agent # TaskAgent

\* an agent was registered by hand after initialize, and a pass over the
\* steps has invoked a handler
C24_Witness ==
    /\ Len(available_agents) = 3
    /\ pc = "returned"
    /\ \E e \in 1..Len(invoked) : invoked[e].step > 0

\* every registered handler runs the shipped predicate of its class
AllShipped == \A a \in SpecializedAgents : impl[a] = "shipped"

\* C25: the coordinator reaches the pass over the steps only when every
\* registered agent has rejected the whole message; with the shipped
\* predicates, which then reject every step too, every step of every Report
\* ends as needs_attention and completed_steps is 0.
C25_ShippedReportCompletesNothing ==
    /\ pc = "complex" =>
           \A k \in 1..Len(available_agents) : ~CanHandle(available_agents[k], message)
    /\ (pc \in {"finish", "returned"} /\ agent_response.kind = "report" /\ AllShipped) =>
           /\ agent_response.completed_steps = 0
           /\ \A j \in 1..Len(agent_response.step_results) :
                  agent_response.step_results[j].status = "needs_attention"

\* the shipped handlers are registered and a Report on two steps has been
\* returned
C25_Witness ==
    /\ pc = "returned"
    /\ AllShipped
    /\ available_agents = <<MathAgent, TextAgent>>
    /\ response.kind = "report"
    /\ response.total_steps = 2
    /\ Len(response.step_results) = 2
    /\ response.completed_steps = 0

\* a call of AgentOrchestrator.process_message begins in this step
CallBegins == pc = "idle" /\ pc' # "idle" /\ caller' = "orchestrator"

\* C26: a call of process_message made while the orchestrator is not running
\* returns the response with success false and error "System not
\* initialized", invokes no agent and leaves the conversation history as it
\* is; is_running becomes true only in the step that ends initialize and
\* false only in the step that ends shutdown.
C26_NotRunningIsRefused ==
    /\ [][(CallBegins /\ ~is_running) =>
              /\ pc' = "returned"
              /\ response' = NotInitialized
              /\ ~response'.success
              /\ response'.error = "System not initialized"
              /\ invoked' = <<>>
              /\ conversation_history' = conversation_history]_vars
    /\ [][(~is_running /\ is_running') =>
              (agents # <<>> /\ available_agents = <<>> /\ available_agents' # <<>>)]_vars
    /\ [][(is_running /\ ~is_running') =>
              UNCHANGED <<agents, available_agents, conversation_history, pc, response>>]_vars

\* a call made after shutdown has been refused, and so has one made while
\* initialize was awaiting the agents
C26_Witness ==
    /\ pc = "returned"
    /\ ~is_running
    /\ agents # <<>>
    /\ response = NotInitialized
    /\ invoked = <<>>
    /\ \/ available_agents # <<>> /\ conversation_history # <<>>
       \/ available_agents = <<>>

\* the call that came through AgentOrchestrator.process_message returns in
\* this step, having been handled
CallEnds == caller = "orchestrator" /\ pc = "finish" /\ pc' = "returned"

\* the entries are user, assistant, user, assistant, ...
Alternates(history) ==
    \A i \in 1..Len(history) :
        history[i] = HistoryEntry(IF i % 2 = 1 THEN "user" ELSE "assistant")

C28_OverlapKeepsAlternation ==
    /\ Alternates(conversation_history)
    /\ (other.pc = "returned" /\ other.turn # 0) => other.turn = other.entry

\* the last k entries of the history, in their order
LastEntries(history, k) == SubSeq(history, Len(history) - k + 1, Len(history))

\* C29: get_conversation_history(count) returns the most recent
\* min(count, len(history)) entries in chronological order for every
\* count >= 0, count = 0 included, and never more than count entries.
C29_RecentHistory ==
    recent.called =>
        /\ recent.returned =
               LastEntries(recent.history,
                           IF recent.count < Len(recent.history) THEN recent.count
                           ELSE Len(recent.history))
        /\ Len(recent.returned) <= recent.count

\* the connection attempts made so far
Attempts == {i \in 1..Len(wait.log) : wait.log[i] # "sleep"}

\* C30: wait_for_mcp_server terminates after at most max_attempts attempts;
\* it returns True at the first attempt answered with status 200 and makes
\* no attempt after it, returns False only after max_attempts failed
\* attempts, and sleeps between two attempts but not after the last.
C30_WaitTerminates ==
    /\ (wait.pc # "idle") ~> (wait.pc = "done")
    /\ [](Cardinality(Attempts) <= wait.max_attempts)
    /\ [](\A i \in 1..(Len(wait.log) - 1) : wait.log[i] # "200")
    /\ [](wait.result = "True" =>
              (wait.pc = "done" /\ wait.log # <<>> /\ wait.log[Len(wait.log)] = "200"))
    /\ []((wait.pc = "done" /\ wait.result # "True") =>
              /\ wait.result = "False"
              /\ Cardinality(Attempts) = wait.max_attempts
              /\ \A i \in 1..Len(wait.log) : wait.log[i] # "200")
    /\ [](\A i \in 1..Len(wait.log) : (i % 2 = 0) <=> (wait.log[i] = "sleep"))
    /\ [](wait.pc = "done" => (wait.log = <<>> \/ wait.log[Len(wait.log)] # "sleep"))

\* the server answered 200 at the third attempt, after two failures and two
\* sleeps
C30_Witness ==
    /\ wait.pc = "done"
    /\ wait.result = "True"
    /\ Len(wait.log) = 5
    /\ wait.max_attempts > 3

====
